---- MODULE Spec2Model ----
(***************************************************************************)
(* Model of the task dashboard client: the Tasks view (task query and      *)
(* filter), the Login view, the two signup forms and the markdown editor.  *)
(* One view is on screen at a time; the backend (data, identity, real-time *)
(* channel) is the environment.                                            *)
(***************************************************************************)
EXTENDS Integers, Sequences, FiniteSets, TLC

\* ------------------------------------------------------------------ bounds
MaxTasks     == 3   \* longest task collection handed to the filter
MaxSearchLen == 2   \* longest search string typed into the search box
MaxBackend   == 1   \* longest task collection the backend returns to the query
MaxNotices   == 2   \* tasks-changed notifications queued for the Tasks view
MaxEffectRuns == 2  \* runs of the Login view's effect

\* ----------------------------------------------------------------- strings
\* A string is a sequence of characters; characters are one-letter strings.
\* a null column value: a marker no string over the alphabet equals
NULL == <<"null">>

Lower == [c \in {"a", "b", "A", "B"} |->
            IF c = "A" THEN "a" ELSE IF c = "B" THEN "b" ELSE c]

\* String.prototype.toLowerCase
toLowerCase(s) == [i \in 1..Len(s) |-> Lower[s[i]]]

\* does needle occur in hay at (0-based) offset i
RECURSIVE includesFrom(_, _, _)
includesFrom(hay, needle, i) ==
  IF i + Len(needle) > Len(hay) THEN FALSE
  ELSE IF SubSeq(hay, i + 1, i + Len(needle)) = needle THEN TRUE
  ELSE includesFrom(hay, needle, i + 1)

\* String.prototype.includes
includes(hay, needle) == includesFrom(hay, needle, 0)

\* ------------------------------------------------------------- task records
Priorities == {"low", "medium", "high"}
Statuses   == {"pending", "in-progress", "completed"}
PrioritySelectors == {"all", "high", "medium", "low"}
StatusSelectors   == {"all", "pending", "in-progress", "completed"}

Task(i, t, c, a, p, s) ==
  [id |-> i, title |-> t, created_by |-> c, assigned_to |-> a,
   priority |-> p, status |-> s]

\* Rows that conform to the Task type: every text field is a string.
TaskPool ==
  { Task(1, <<"A", "b">>, <<"a">>,      <<"b">>,      "high",   "pending"),
    Task(2, <<"b">>,      <<"B">>,      <<>>,         "low",    "completed"),
    Task(3, <<>>,         <<"a">>,      <<"B", "a">>, "medium", "in-progress"),
    Task(4, <<"B", "A">>, <<"b">>,      <<"a">>,      "high",   "completed") }

\* Rows as the backend can deliver them: a text column may be null.
RawPool ==
  TaskPool \cup
  { Task(5, <<"a">>, NULL,    <<"b">>, "low",  "pending"),
    Task(6, <<"b">>, <<"a">>, NULL,    "high", "pending"),
    Task(7, NULL,    <<"a">>, <<"b">>, "low",  "completed") }

\* ordered collections of distinct rows of a pool, at most n long
SeqsOf(pool, n) ==
  UNION { { s \in [1..k -> pool] : \A i, j \in 1..k : i # j => s[i].id # s[j].id }
          : k \in 0..n }

TaskSeqs == SeqsOf(TaskPool, MaxTasks)
RawSeqs  == SeqsOf(RawPool, MaxTasks)

SearchTerms == UNION { [1..k -> {"a", "B"}] : k \in 0..MaxSearchLen }

\* ------------------------------------------------------------- task filter
\* fieldMatches comparing against the search term as typed
fieldMatchesRawTerm(x, s) == includes(toLowerCase(x), s)

\* x.toLowerCase().includes(searchTerm.toLowerCase()); x.toLowerCase throws
\* when x is null
fieldMatches(x, s) == includes(toLowerCase(x), toLowerCase(s))

\* matchesSearch: a || b || c, evaluated left to right with short circuit
matchesSearchThrows(task, s) ==
  IF task.title = NULL THEN TRUE
  ELSE IF fieldMatches(task.title, s) THEN FALSE
  ELSE IF task.created_by = NULL THEN TRUE
  ELSE IF fieldMatches(task.created_by, s) THEN FALSE
  ELSE task.assigned_to = NULL

matchesSearch(task, s) ==
  \/ fieldMatches(task.title, s)
  \/ fieldMatches(task.created_by, s)
  \/ fieldMatches(task.assigned_to, s)

matchesPriority(task, p) == IF p = "all" THEN TRUE ELSE task.priority = p

matchesStatus(task, st) == IF st = "all" THEN TRUE ELSE task.status = st

\* the callback handed to tasks.filter
filterCallback(task, s, p, st) ==
  matchesSearch(task, s) /\ matchesPriority(task, p) /\ matchesStatus(task, st)

\* arrayFilter collecting the kept rows in reverse order
RECURSIVE arrayFilterReversed(_, _, _, _)
arrayFilterReversed(T, s, p, st) ==
  IF T = <<>> THEN <<>>
  ELSE arrayFilterReversed(Tail(T), s, p, st)
         \o (IF filterCallback(Head(T), s, p, st) THEN <<Head(T)>> ELSE <<>>)

\* Array.prototype.filter over rows on which the callback does not throw
RECURSIVE arrayFilter(_, _, _, _)
arrayFilter(T, s, p, st) ==
  IF T = <<>> THEN <<>>
  ELSE (IF filterCallback(Head(T), s, p, st) THEN <<Head(T)>> ELSE <<>>)
         \o arrayFilter(Tail(T), s, p, st)

\* tasks.filter(...) visits the rows in order; the first callback that throws
\* aborts the render with a TypeError
filterThrows(T, s) ==
  \E i \in 1..Len(T) :
     /\ \A j \in 1..(i - 1) : ~matchesSearchThrows(T[j], s)
     /\ matchesSearchThrows(T[i], s)

\* computeFilteredTasks that skips the first row of its input
computeFilteredTasksSkipFirst(T, s, p, st) ==
  IF T = <<>> THEN <<>> ELSE arrayFilter(Tail(T), s, p, st)

\* const filteredTasks = tasks.filter(...), when no callback throws
computeFilteredTasks(T, s, p, st) == arrayFilter(T, s, p, st)

\* -------------------------------------------------------------- signup data
\* An email is a sequence of tokens: local part, "@", domain.
E1 == <<"a", "@", "outlook.com">>
E2 == <<"b", "@", "outlook.com">>
\* what the user types into the email field of the form that signs up
\* directly, and of the form with the pre-check
LegacyEmailInputs == { <<"a", "outlook.com">>, <<"a", "@", "gmail.com">>, E1, E2 }
EmailInputs == { <<>>, E1, E2 }

\* z.string().email(...)
isEmail(e) == Len(e) = 3 /\ e[1] # "@" /\ e[2] = "@" /\ e[3] # "@"

\* z.string().endsWith(suffix)
endsWith(e, suffix) ==
  Len(e) >= Len(suffix) /\ SubSeq(e, Len(e) - Len(suffix) + 1, Len(e)) = suffix

MinUsername == 3
MinPassword == 8
MinContact  == 10
MinLocation == 3
MinFullName == 3

\* signupSchema without the contact-number rule
signupSchemaNoContact(f) ==
  (IF f.username >= MinUsername THEN {} ELSE {"username"}) \cup
  (IF isEmail(f.email) /\ endsWith(f.email, <<"@", "outlook.com">>)
     THEN {} ELSE {"email"}) \cup
  (IF f.password >= MinPassword THEN {} ELSE {"password"}) \cup
  (IF f.location >= MinLocation THEN {} ELSE {"location"}) \cup
  (IF f.full_name >= MinFullName THEN {} ELSE {"full_name"})

\* signupSchema of the form that signs up directly: the fields that violate
\* their rule. A text field is modelled by its length.
signupSchema(f) ==
  (IF f.username >= MinUsername THEN {} ELSE {"username"}) \cup
  (IF isEmail(f.email) /\ endsWith(f.email, <<"@", "outlook.com">>)
     THEN {} ELSE {"email"}) \cup
  (IF f.password >= MinPassword THEN {} ELSE {"password"}) \cup
  (IF f.contact_number >= MinContact THEN {} ELSE {"contact_number"}) \cup
  (IF f.location >= MinLocation THEN {} ELSE {"location"}) \cup
  (IF f.full_name >= MinFullName THEN {} ELSE {"full_name"})

\* signupSchema imported from @/types/auth by the form with the email
\* pre-check: the email rule, and the rules of the remaining fields taken
\* together ("others").
authSignupSchema(f) ==
  (IF isEmail(f.email) THEN {} ELSE {"email"}) \cup
  (IF f.others = "valid" THEN {} ELSE {"others"})

SecurityCode == "hrd712"

\* defaultValues of the two forms
LegacyDefaults ==
  [username |-> 0, email |-> <<>>, password |-> 0, contact_number |-> 0,
   location |-> 0, full_name |-> 0]
SignupDefaults == [email |-> <<>>, security_code |-> "", others |-> "invalid"]

NoSubmit == [email |-> <<>>, security_code |-> ""]

\* ------------------------------------------------------------------- state
VARIABLES
  view,            \* the view on screen in this run
  mounted,         \* TRUE while the view's component is mounted
  route,           \* current location of the router
  session,         \* the identity service's session for this browser
  toast,           \* the notification on display (NoToast when none)
  uncaught,        \* call sites whose promise rejected with no handler
  unreported,      \* call sites that swallowed a failure without notifying
  \* Tasks view
  backendTasks,    \* the task collection held by the backend
  queryData,       \* data of the ['tasks'] query (NoData before first fetch)
  queryStatus,     \* "pending" | "success" | "error"
  fetchStatus,     \* "idle" | "fetching"
  isInvalidated,   \* the cached collection is marked stale
  searchTerm, priorityFilter, statusFilter,
  filteredTasks,   \* value computed by the last render that completed
  crashed,         \* a render of Tasks threw a TypeError
  notices,         \* tasks-changed notifications not yet delivered to the view
  \* Login view
  listeners,       \* ids of the auth-state subscriptions still registered
  effectRuns,      \* how many times the Login effect has run
  pendingChecks,   \* checkUser calls whose getSession() has not settled
  unsubCalls,      \* per subscription id, the unsubscribe() calls made on it
  \* signup forms
  registered,      \* emails that have an account (and a profile row)
  form,            \* current values of the form fields
  isSubmitted,     \* formState.isSubmitted: a submit was attempted
  loading,         \* the form's loading flag
  pc,              \* where onSubmit is suspended: "idle" | "lookup" | "signup"
  submitData,      \* the data onSubmit was called with
  emailError,      \* emailError is set (non-null)
  emailFieldError, \* form.formState.errors.email is set
  showDuplicateEmail, showConfirmation,
  error,           \* the form-level error shown in the Alert ("none" if null)
  debouncedEmail,  \* value of useDebounce(email, 500)
  lookups,         \* emails of checkEmail lookups still in flight
  \* markdown editor
  markdown,        \* text in the editor
  clipboard,       \* content of the system clipboard
  copying          \* texts of clipboard writes still in flight

commonVars == <<view, mounted, route, session, toast, uncaught, unreported>>
queryVars  == <<backendTasks, queryData, queryStatus, fetchStatus, isInvalidated, notices>>
filterVars == <<searchTerm, priorityFilter, statusFilter>>
tasksVars  == <<queryVars, filterVars, filteredTasks, crashed>>
loginVars  == <<listeners, effectRuns, pendingChecks, unsubCalls>>
signupVars == <<registered, form, isSubmitted, loading, pc, submitData,
                emailError, emailFieldError, showDuplicateEmail,
                showConfirmation, error, debouncedEmail, lookups>>
editorVars == <<markdown, clipboard, copying>>
vars == <<commonVars, tasksVars, loginVars, signupVars, editorVars>>

Sessions == {"none", "unverified", "verified"}
NoToast  == "none"
NoData   == {}

\* query data is NoData (undefined) or the singleton of the fetched collection
Data(T) == {T}

\* const { data: tasks = [] } = useQuery(...)
tasks == IF queryData = NoData THEN <<>> ELSE CHOOSE T \in queryData : TRUE

\* the render: filteredTasks is recomputed from the collection and the three
\* filter inputs; a throwing callback leaves the view crashed
Render(T, s, p, st) ==
  IF filterThrows(T, s)
  THEN crashed' = TRUE /\ UNCHANGED filteredTasks
  ELSE crashed' = FALSE /\ filteredTasks' = computeFilteredTasks(T, s, p, st)

\* isLoading of useQuery: first fetch in flight, no data yet
isLoading == queryStatus = "pending" /\ fetchStatus = "fetching"

\* ---------------------------------------------------------------- defaults
SignupIdle ==
  /\ registered = {E1} /\ form = SignupDefaults /\ isSubmitted = FALSE
  /\ loading = FALSE /\ pc = "idle" /\ submitData = NoSubmit
  /\ emailError = FALSE /\ emailFieldError = FALSE
  /\ showDuplicateEmail = FALSE /\ showConfirmation = FALSE
  /\ error = "none" /\ debouncedEmail = <<>> /\ lookups = {}

CommonInit(v, r) ==
  /\ view = v /\ route = r
  /\ toast = NoToast /\ uncaught = {} /\ unreported = {}

TasksIdle ==
  /\ backendTasks = <<>> /\ queryData = NoData /\ queryStatus = "pending"
  /\ fetchStatus = "idle" /\ isInvalidated = FALSE /\ notices = 0
  /\ searchTerm = <<>> /\ priorityFilter = "all" /\ statusFilter = "all"
  /\ filteredTasks = <<>> /\ crashed = FALSE

LoginIdle ==
  /\ listeners = {} /\ effectRuns = 0 /\ pendingChecks = 0
  /\ unsubCalls = [k \in 1..MaxEffectRuns |-> 0]

EditorIdle == markdown = "initialMarkdown" /\ clipboard = "" /\ copying = {}

\* ------------------------------------------------------- Tasks view: filter
\* onChange={(e) => setSearchTerm(e.target.value)} and the render it causes
setSearchTerm(s) ==
  /\ view = "Tasks" /\ mounted /\ ~isLoading /\ ~crashed
  /\ s # searchTerm
  /\ searchTerm' = s
  /\ Render(tasks, s, priorityFilter, statusFilter)
  /\ UNCHANGED <<commonVars, queryVars, priorityFilter, statusFilter, loginVars, signupVars, editorVars>>

\* onValueChange={setPriorityFilter}
setPriorityFilter(p) ==
  /\ view = "Tasks" /\ mounted /\ ~isLoading /\ ~crashed
  /\ p # priorityFilter
  /\ priorityFilter' = p
  /\ Render(tasks, searchTerm, p, statusFilter)
  /\ UNCHANGED <<commonVars, queryVars, searchTerm, statusFilter, loginVars, signupVars, editorVars>>

\* onValueChange={setStatusFilter}
setStatusFilter(st) ==
  /\ view = "Tasks" /\ mounted /\ ~isLoading /\ ~crashed
  /\ st # statusFilter
  /\ statusFilter' = st
  /\ Render(tasks, searchTerm, priorityFilter, st)
  /\ UNCHANGED <<commonVars, queryVars, searchTerm, priorityFilter, loginVars, signupVars, editorVars>>

TypeSearch     == \E s \in SearchTerms : setSearchTerm(s)
SelectPriority == \E p \in PrioritySelectors : setPriorityFilter(p)
SelectStatus   == \E st \in StatusSelectors : setStatusFilter(st)

\* The Tasks view rendered over a fetched collection T.
Loaded(T) ==
  /\ CommonInit("Tasks", "/tasks") /\ mounted = TRUE /\ session = "verified"
  /\ backendTasks = T /\ queryData = Data(T) /\ queryStatus = "success"
  /\ fetchStatus = "idle" /\ isInvalidated = FALSE /\ notices = 0
  /\ searchTerm = <<>> /\ priorityFilter = "all" /\ statusFilter = "all"
  /\ LoginIdle /\ SignupIdle /\ EditorIdle
  /\ crashed = filterThrows(T, <<>>)
  /\ filteredTasks = IF crashed THEN <<>> ELSE computeFilteredTasks(T, <<>>, "all", "all")

InitFilter == \E T \in TaskSeqs : Loaded(T)
InitRows   == \E T \in RawSeqs : Loaded(T)
NextFilter == TypeSearch \/ SelectPriority \/ SelectStatus

\* the filter applied to collections of well-typed rows
SpecFilter == InitFilter /\ [][NextFilter]_vars
\* the filter applied to rows as delivered, null columns included
SpecRows   == InitRows /\ [][NextFilter]_vars

\* -------------------------------------------------- Tasks view: task query
BackendSeqs == SeqsOf(TaskPool, MaxBackend)

\* the TaskList (and with it the tasks-changed callback) is on screen
listShown == view = "Tasks" /\ mounted /\ ~isLoading /\ ~crashed

\* a fetch of the ['tasks'] query starts: a query without data goes back to
\* "pending"
startFetch ==
  /\ fetchStatus' = "fetching"
  /\ queryStatus' = IF queryData = NoData THEN "pending" ELSE queryStatus

\* Tasks mounts: useQuery({queryKey: ['tasks'], queryFn: taskService.getTasks,
\* staleTime: 0, gcTime: 0}) subscribes and, having no fresh data, fetches.
\* The component reads no session and has no `enabled` condition.
MountTasks ==
  /\ view = "Tasks" /\ ~mounted
  /\ mounted' = TRUE
  /\ startFetch
  /\ Render(tasks, searchTerm, priorityFilter, statusFilter)
  /\ UNCHANGED <<view, route, session, toast, uncaught, unreported,
                 backendTasks, queryData, isInvalidated, notices, filterVars,
                 loginVars, signupVars, editorVars>>

\* queryFn resolves: the fetched collection replaces the query data
FetchSuccess ==
  /\ view = "Tasks" /\ mounted /\ fetchStatus = "fetching"
  /\ queryData' = Data(backendTasks)
  /\ queryStatus' = "success" /\ fetchStatus' = "idle"
  /\ isInvalidated' = FALSE
  /\ Render(backendTasks, searchTerm, priorityFilter, statusFilter)
  /\ UNCHANGED <<commonVars, backendTasks, notices, filterVars, loginVars, signupVars, editorVars>>

\* queryFn rejects (after the query's retries): the data is kept
FetchError ==
  /\ view = "Tasks" /\ mounted /\ fetchStatus = "fetching"
  /\ queryStatus' = "error" /\ fetchStatus' = "idle"
  /\ UNCHANGED <<commonVars, backendTasks, queryData, isInvalidated, notices,
                 filterVars, filteredTasks, crashed, loginVars, signupVars, editorVars>>

\* handleTasksChange without the invalidation taking effect
handleTasksChangeNoop ==
  /\ UNCHANGED <<isInvalidated, fetchStatus, queryStatus>>

\* const handleTasksChange = () =>
\*   queryClient.invalidateQueries({ queryKey: ['tasks'] });
\* marks the query stale and refetches it, since the view observes it
handleTasksChange ==
  /\ isInvalidated' = TRUE
  /\ startFetch

\* TaskList calls onTasksChange for a tasks-changed notification
NotifyTasksChanged ==
  /\ listShown /\ notices > 0
  /\ notices' = notices - 1
  /\ handleTasksChange
  /\ UNCHANGED <<commonVars, backendTasks, queryData, filterVars,
                 filteredTasks, crashed, loginVars, signupVars, editorVars>>

\* some session inserts, updates or deletes tasks; the real-time channel
\* queues a notification when the list is on screen
RemoteChange ==
  /\ view = "Tasks" /\ notices < MaxNotices
  /\ \E T \in BackendSeqs : T # backendTasks /\ backendTasks' = T
  /\ notices' = IF listShown THEN notices + 1 ELSE notices
  /\ UNCHANGED <<commonVars, queryData, queryStatus, fetchStatus,
                 isInvalidated, filterVars, filteredTasks, crashed, loginVars, signupVars, editorVars>>

InitTasks ==
  /\ CommonInit("Tasks", "/tasks") /\ mounted = FALSE
  /\ session \in Sessions
  /\ TasksIdle /\ LoginIdle /\ SignupIdle /\ EditorIdle

\* The query runs with the filter inputs at their initial values; the filter
\* handlers touch no query state and are exercised, over every loaded
\* collection, by SpecFilter.
NextTasks ==
  \/ MountTasks \/ FetchSuccess \/ FetchError
  \/ NotifyTasksChanged \/ RemoteChange

\* -------------------------------------------------------------- Login view
\* navigate(to)
navigate(to) == route' = to

\* The effect of Login runs: checkUser() is started and a listener is
\* registered with supabase.auth.onAuthStateChange.
runLoginEffect ==
  /\ effectRuns' = effectRuns + 1
  /\ pendingChecks' = pendingChecks + 1
  /\ listeners' = listeners \cup {effectRuns + 1}

\* a cleanup that unsubscribes nothing
cleanupLoginEffectMissing(ls) == ls

\* the cleanup returned by the effect: subscription.unsubscribe(), on the
\* subscription of the effect run it belongs to
cleanupLoginEffect(ls) == ls \ {effectRuns}

\* React calls the cleanup of the latest effect run
callCleanup ==
  unsubCalls' = [unsubCalls EXCEPT ![effectRuns] = @ + 1]

MountLogin ==
  /\ view = "Login" /\ ~mounted /\ route = "/login"
  /\ effectRuns < MaxEffectRuns
  /\ mounted' = TRUE
  /\ runLoginEffect
  /\ UNCHANGED <<view, route, session, toast, uncaught, unreported,
                 tasksVars, signupVars, editorVars, unsubCalls>>

\* a dependency of the effect changed: cleanup, then the effect again
RerunLoginEffect ==
  /\ view = "Login" /\ mounted
  /\ effectRuns < MaxEffectRuns
  /\ effectRuns' = effectRuns + 1
  /\ pendingChecks' = pendingChecks + 1
  /\ callCleanup
  /\ listeners' = cleanupLoginEffect(listeners) \cup {effectRuns + 1}
  /\ UNCHANGED <<commonVars, tasksVars, signupVars, editorVars>>

\* the router has left /login: Login unmounts and its cleanup runs
UnmountLogin ==
  /\ view = "Login" /\ mounted /\ route # "/login"
  /\ mounted' = FALSE
  /\ callCleanup
  /\ listeners' = cleanupLoginEffect(listeners)
  /\ UNCHANGED <<view, route, session, toast, uncaught, unreported,
                 tasksVars, signupVars, editorVars, effectRuns, pendingChecks>>

\* the user follows a link out of the Login view
LeaveLogin ==
  /\ view = "Login" /\ mounted /\ route = "/login"
  /\ navigate("/signup")
  /\ UNCHANGED <<view, mounted, session, toast, uncaught, unreported,
                 tasksVars, signupVars, editorVars, loginVars>>

\* the user comes back to /login after the view was torn down
ReturnToLogin ==
  /\ view = "Login" /\ ~mounted /\ route # "/login"
  /\ effectRuns < MaxEffectRuns
  /\ navigate("/login")
  /\ UNCHANGED <<view, mounted, session, toast, uncaught, unreported,
                 tasksVars, signupVars, editorVars, loginVars>>

\* checkUser after getSession() resolved:
\*   if (session) navigate("/")
\* an error returned next to a null session is not looked at
checkUserResolved(failed) ==
  /\ IF ~failed /\ session # "none" THEN navigate("/") ELSE UNCHANGED route
  /\ unreported' = IF failed THEN unreported \cup {"Login.checkUser"}
                    ELSE unreported
  /\ UNCHANGED uncaught

\* checkUser after getSession() rejected: nothing awaits or catches the
\* promise returned by checkUser()
checkUserRejected ==
  /\ uncaught' = uncaught \cup {"Login.checkUser"}
  /\ UNCHANGED <<route, unreported>>

\* a pending getSession() settles; the view may be gone by then
CheckUserSettles ==
  /\ view = "Login" /\ pendingChecks > 0
  /\ pendingChecks' = pendingChecks - 1
  /\ \/ checkUserResolved(FALSE)
     \/ checkUserResolved(TRUE)
     \/ checkUserRejected
  /\ UNCHANGED <<view, mounted, session, toast, tasksVars, signupVars,
                 editorVars, listeners, effectRuns, unsubCalls>>

\* the callback given to onAuthStateChange:
\*   if (event === "SIGNED_IN") {
\*     if (!session?.user.email_confirmed_at) { navigate("/verify"); return; }
\*     toast({title: "Success", ...}); navigate("/");
\*   }
onAuthStateChange(event, sess) ==
  IF event = "SIGNED_IN"
  THEN IF sess # "verified"
       THEN navigate("/verify") /\ UNCHANGED toast
       ELSE toast' = "Success" /\ navigate("/")
  ELSE UNCHANGED <<route, toast>>

\* the identity service changes the session and emits the event to every
\* registered listener
AuthEvent(event, sess) ==
  /\ view = "Login"
  /\ session' = sess
  /\ IF listeners # {} THEN onAuthStateChange(event, sess)
     ELSE UNCHANGED <<route, toast>>
  /\ UNCHANGED <<view, mounted, uncaught, unreported, tasksVars, signupVars, editorVars, loginVars>>

SignedIn      == \E sess \in {"unverified", "verified"} : AuthEvent("SIGNED_IN", sess)
SignedOut     == session # "none" /\ AuthEvent("SIGNED_OUT", "none")
\* the user confirms the email elsewhere: the session is updated in place
UserUpdated   == session = "unverified" /\ AuthEvent("USER_UPDATED", "verified")

InitLogin ==
  /\ CommonInit("Login", "/login") /\ mounted = FALSE
  /\ session \in Sessions
  /\ TasksIdle /\ LoginIdle /\ SignupIdle /\ EditorIdle

NextLogin ==
  \/ MountLogin \/ RerunLoginEffect \/ UnmountLogin \/ LeaveLogin \/ ReturnToLogin
  \/ CheckUserSettles \/ SignedIn \/ SignedOut \/ UserUpdated

\* ------------------------------------------ signup form with email pre-check
\* what the profiles lookup (.from('profiles').select('email').eq(...)
\* .maybeSingle()) can settle with: a row when the email has a profile, no row
\* otherwise (a PGRST116 error counts as no row), another error, or a rejection
profileLookupOutcomes(e) ==
  {"error", "throw"} \cup (IF e \in registered THEN {"row"} ELSE {"none"})

\* what handleSignup(data) of @/utils/auth can settle with: the identity
\* service creates the account only for an email that has none
handleSignupOutcomes(e) ==
  {"error_other", "throw_rate_limit", "throw_other"} \cup
  (IF e \in registered
     THEN {"error_already_registered", "throw_already_registered"}
     ELSE {"success"})

\* the AlertDialogs are modal: no form input while one is open
formUsable(v) ==
  /\ view = v /\ mounted /\ ~loading
  /\ ~showDuplicateEmail /\ ~showConfirmation

\* the user edits the email field; mode "onChange" re-validates it, which
\* replaces whatever error the field carried
SetEmail ==
  /\ formUsable("SignupForm")
  /\ \E e \in EmailInputs :
        /\ e # form.email
        /\ form' = [form EXCEPT !.email = e]
        /\ emailFieldError' = ("email" \in authSignupSchema([form EXCEPT !.email = e]))
  /\ UNCHANGED <<commonVars, tasksVars, loginVars, editorVars, registered,
                 isSubmitted, loading, pc, submitData, emailError,
                 showDuplicateEmail, showConfirmation, error, debouncedEmail,
                 lookups>>

\* the user edits the security code or the remaining fields
SetOtherField ==
  /\ formUsable("SignupForm")
  /\ \/ \E c \in {SecurityCode, ""} :
           c # form.security_code /\ form' = [form EXCEPT !.security_code = c]
     \/ \E o \in {"valid", "invalid"} :
           o # form.others /\ form' = [form EXCEPT !.others = o]
  /\ UNCHANGED <<commonVars, tasksVars, loginVars, editorVars, registered,
                 isSubmitted, loading, pc, submitData, emailError,
                 emailFieldError, showDuplicateEmail, showConfirmation, error,
                 debouncedEmail, lookups>>

\* checkEmail, up to its await:
\*   if (!debouncedEmail || !form.formState.isValid) return;
\*   ... await supabase.from('profiles')...
checkEmail(e) ==
  IF e = <<>> \/ authSignupSchema(form) # {}
  THEN UNCHANGED lookups
  ELSE lookups' = lookups \cup {e}

\* 500 ms after the last edit useDebounce publishes the email; the effect
\* with dependency debouncedEmail runs checkEmail()
DebounceSettles ==
  /\ view = "SignupForm" /\ mounted
  /\ debouncedEmail # form.email
  /\ debouncedEmail' = form.email
  /\ checkEmail(form.email)
  /\ UNCHANGED <<commonVars, tasksVars, loginVars, editorVars, registered,
                 form, isSubmitted, loading, pc, submitData, emailError,
                 emailFieldError, showDuplicateEmail, showConfirmation, error>>

\* checkEmail after its await
checkEmailSettled(r) ==
  CASE r = "row" ->
         /\ emailError' = TRUE /\ emailFieldError' = TRUE
         /\ showDuplicateEmail' = TRUE
         /\ UNCHANGED unreported
    [] r = "none" ->
         /\ emailError' = FALSE /\ emailFieldError' = FALSE
         /\ UNCHANGED <<showDuplicateEmail, unreported>>
    [] OTHER ->  \* console.error only, in both the error and the catch branch
         /\ unreported' = unreported \cup {"SignupForm.checkEmail"}
         /\ UNCHANGED <<emailError, emailFieldError, showDuplicateEmail>>

\* a checkEmail lookup settles, in any order with the others
CheckEmailSettles ==
  /\ view = "SignupForm" /\ mounted
  /\ \E e \in lookups :
        /\ lookups' = lookups \ {e}
        /\ \E r \in profileLookupOutcomes(e) : checkEmailSettled(r)
  /\ UNCHANGED <<view, mounted, route, session, toast, uncaught, tasksVars,
                 loginVars, editorVars, registered, form, isSubmitted, loading,
                 pc, submitData, showConfirmation, error, debouncedEmail>>

\* onSubmit up to its first await
onSubmit(data) ==
  IF emailError \/ emailFieldError
  THEN /\ showDuplicateEmail' = TRUE
       /\ loading' = FALSE
       /\ UNCHANGED <<error, pc, submitData>>
  ELSE /\ loading' = TRUE
       /\ error' = "none"
       /\ pc' = "lookup"
       /\ submitData' = data
       /\ UNCHANGED showDuplicateEmail

\* the submit button (disabled={loading || !!emailError}) is pressed:
\* form.handleSubmit(onSubmit) runs the resolver and calls onSubmit only when
\* every field is valid; a passing validation leaves no field error
Submit ==
  /\ formUsable("SignupForm") /\ ~emailError /\ pc = "idle"
  /\ isSubmitted' = TRUE
  /\ IF authSignupSchema(form) # {}
     THEN /\ emailFieldError' = ("email" \in authSignupSchema(form))
          /\ UNCHANGED <<loading, pc, submitData, showDuplicateEmail, error>>
     ELSE /\ emailFieldError' = FALSE
          /\ onSubmit([email |-> form.email, security_code |-> form.security_code])
  /\ UNCHANGED <<commonVars, tasksVars, loginVars, editorVars, registered,
                 form, emailError, showConfirmation, debouncedEmail, lookups>>

\* onSubmit going on to handleSignup whatever the security code is
onSubmitAfterLookupAnyCode(r) ==
  CASE r = "error" ->
         /\ error' = "checking" /\ loading' = FALSE /\ pc' = "idle"
         /\ UNCHANGED <<emailError, emailFieldError, showDuplicateEmail, toast>>
    [] r = "throw" ->
         /\ toast' = "Error" /\ loading' = FALSE /\ pc' = "idle"
         /\ UNCHANGED <<emailError, emailFieldError, showDuplicateEmail, error>>
    [] r = "row" ->
         /\ emailError' = TRUE /\ showDuplicateEmail' = TRUE
         /\ emailFieldError' = TRUE
         /\ toast' = "Email Already Registered"
         /\ loading' = FALSE /\ pc' = "idle"
         /\ UNCHANGED error
    [] OTHER ->
         /\ pc' = "signup"
         /\ UNCHANGED <<emailError, emailFieldError, showDuplicateEmail,
                        error, toast, loading>>

\* onSubmit between the profile lookup and handleSignup
onSubmitAfterLookup(r) ==
  CASE r = "error" ->
         /\ error' = "checking" /\ loading' = FALSE /\ pc' = "idle"
         /\ UNCHANGED <<emailError, emailFieldError, showDuplicateEmail, toast>>
    [] r = "throw" ->
         /\ toast' = "Error" /\ loading' = FALSE /\ pc' = "idle"
         /\ UNCHANGED <<emailError, emailFieldError, showDuplicateEmail, error>>
    [] r = "row" ->
         /\ emailError' = TRUE /\ showDuplicateEmail' = TRUE
         /\ emailFieldError' = TRUE
         /\ toast' = "Email Already Registered"
         /\ loading' = FALSE /\ pc' = "idle"
         /\ UNCHANGED error
    [] OTHER ->
         IF submitData.security_code # SecurityCode
         THEN /\ toast' = "Invalid Security Code"
              /\ loading' = FALSE /\ pc' = "idle"
              /\ UNCHANGED <<emailError, emailFieldError, showDuplicateEmail,
                             error>>
         ELSE /\ pc' = "signup"
              /\ UNCHANGED <<emailError, emailFieldError, showDuplicateEmail,
                             error, toast, loading>>

SubmitLookupSettles ==
  /\ view = "SignupForm" /\ mounted /\ pc = "lookup"
  /\ \E r \in profileLookupOutcomes(submitData.email) : onSubmitAfterLookup(r)
  /\ UNCHANGED <<view, mounted, route, session, uncaught, unreported,
                 tasksVars, loginVars, editorVars, registered, form,
                 isSubmitted, submitData, showConfirmation, debouncedEmail,
                 lookups>>

\* the duplicate-email state set in three places of onSubmit
duplicateEmail ==
  /\ showDuplicateEmail' = TRUE /\ emailError' = TRUE
  /\ emailFieldError' = TRUE

\* onSubmit after handleSignup settled, with its catch and finally
onSubmitAfterSignup(r) ==
  /\ loading' = FALSE /\ pc' = "idle"
  /\ registered' = IF r = "success" THEN registered \cup {submitData.email}
                    ELSE registered
  /\ CASE r = "success" ->
             /\ showConfirmation' = TRUE
             /\ UNCHANGED <<emailError, emailFieldError, showDuplicateEmail,
                            error, toast>>
        [] r \in {"error_already_registered", "throw_already_registered"} ->
             /\ duplicateEmail
             /\ UNCHANGED <<showConfirmation, error, toast>>
        [] r = "error_other" ->
             /\ error' = "signup"
             /\ UNCHANGED <<emailError, emailFieldError, showDuplicateEmail,
                            showConfirmation, toast>>
        [] r = "throw_rate_limit" ->
             /\ error' = "rate_limit"
             /\ UNCHANGED <<emailError, emailFieldError, showDuplicateEmail,
                            showConfirmation, toast>>
        [] OTHER ->
             /\ toast' = "Error"
             /\ UNCHANGED <<emailError, emailFieldError, showDuplicateEmail,
                            showConfirmation, error>>

SignupSettles ==
  /\ view = "SignupForm" /\ mounted /\ pc = "signup"
  /\ \E r \in handleSignupOutcomes(submitData.email) : onSubmitAfterSignup(r)
  /\ UNCHANGED <<view, mounted, route, session, uncaught, unreported,
                 tasksVars, loginVars, editorVars, form, isSubmitted,
                 submitData, debouncedEmail, lookups>>

\* handleConfirmationClose: close the dialog and load /login
handleConfirmationClose ==
  /\ view = "SignupForm" /\ mounted /\ showConfirmation
  /\ showConfirmation' = FALSE
  /\ route' = "/login" /\ mounted' = FALSE
  /\ lookups' = {}
  /\ UNCHANGED <<view, session, toast, uncaught, unreported, tasksVars,
                 loginVars, editorVars, registered, form, isSubmitted, loading,
                 pc, submitData, emailError, emailFieldError,
                 showDuplicateEmail, error, debouncedEmail>>

\* handleDuplicateEmailClose
handleDuplicateEmailClose ==
  /\ view = "SignupForm" /\ mounted /\ showDuplicateEmail
  /\ showDuplicateEmail' = FALSE
  /\ UNCHANGED <<commonVars, tasksVars, loginVars, editorVars, registered,
                 form, isSubmitted, loading, pc, submitData, emailError,
                 emailFieldError, showConfirmation, error, debouncedEmail,
                 lookups>>

\* somebody else registers an email
OtherRegisters ==
  /\ view \in {"SignupForm", "LegacySignup"}
  /\ \E e \in {E1, E2} \ registered : registered' = registered \cup {e}
  /\ UNCHANGED <<commonVars, tasksVars, loginVars, editorVars, form,
                 isSubmitted, loading, pc, submitData, emailError,
                 emailFieldError, showDuplicateEmail, showConfirmation, error,
                 debouncedEmail, lookups>>

InitSignup ==
  /\ CommonInit("SignupForm", "/signup") /\ mounted = TRUE
  /\ session = "none"
  /\ TasksIdle /\ LoginIdle /\ SignupIdle /\ EditorIdle

NextSignup ==
  \/ SetEmail \/ SetOtherField \/ DebounceSettles \/ CheckEmailSettles
  \/ Submit \/ SubmitLookupSettles \/ SignupSettles
  \/ handleConfirmationClose \/ handleDuplicateEmailClose \/ OtherRegisters

\* ------------------------------------------- signup form signing up directly
\* what supabase.auth.signUp can settle with
signUpOutcomes(e) ==
  {"error_other", "throw"} \cup
  (IF e \in registered THEN {"error_already_registered"} ELSE {"success"})

MinLength ==
  [username |-> MinUsername, password |-> MinPassword,
   contact_number |-> MinContact, location |-> MinLocation,
   full_name |-> MinFullName]

\* the user edits one field (the inputs are disabled while loading)
SetLegacyField ==
  /\ view = "LegacySignup" /\ mounted /\ ~loading
  /\ \/ \E f \in DOMAIN MinLength : \E n \in {MinLength[f] - 1, MinLength[f]} :
           n # form[f] /\ form' = [form EXCEPT ![f] = n]
     \/ \E e \in LegacyEmailInputs :
           e # form.email /\ form' = [form EXCEPT !.email = e]
  /\ UNCHANGED <<commonVars, tasksVars, loginVars, editorVars, registered,
                 isSubmitted, loading, pc, submitData, emailError,
                 emailFieldError, showDuplicateEmail, showConfirmation, error,
                 debouncedEmail, lookups>>

\* onSubmit up to its await: setLoading(true); await supabase.auth.signUp(...)
legacyOnSubmit(data) ==
  /\ loading' = TRUE
  /\ pc' = "signup"
  /\ submitData' = data

\* the submit button (disabled={loading}) is pressed:
\* form.handleSubmit(onSubmit) calls onSubmit only when signupSchema passes
LegacySubmit ==
  /\ view = "LegacySignup" /\ mounted /\ ~loading
  /\ isSubmitted' = TRUE
  /\ IF signupSchema(form) # {}
     THEN UNCHANGED <<loading, pc, submitData>>
     ELSE legacyOnSubmit([email |-> form.email, security_code |-> ""])
  /\ UNCHANGED <<commonVars, tasksVars, loginVars, editorVars, registered,
                 form, emailError, emailFieldError, showDuplicateEmail,
                 showConfirmation, error, debouncedEmail, lookups>>

\* onSubmit after signUp settled:
\*   if (error) throw error; toast Success; navigate("/verify")
\*   catch: toast({title: "Error", description: error.message, ...})
\*   finally: setLoading(false)
legacyAfterSignUp(r) ==
  /\ loading' = FALSE /\ pc' = "idle"
  /\ registered' = IF r = "success" THEN registered \cup {submitData.email}
                    ELSE registered
  /\ IF r = "success"
     THEN toast' = "Success" /\ navigate("/verify") /\ mounted' = FALSE
     ELSE toast' = "Error" /\ UNCHANGED <<route, mounted>>

LegacySignUpSettles ==
  /\ view = "LegacySignup" /\ mounted /\ pc = "signup"
  /\ \E r \in signUpOutcomes(submitData.email) : legacyAfterSignUp(r)
  /\ UNCHANGED <<view, session, uncaught, unreported, tasksVars, loginVars,
                 editorVars, form, isSubmitted, submitData, emailError,
                 emailFieldError, showDuplicateEmail, showConfirmation, error,
                 debouncedEmail, lookups>>

InitLegacySignup ==
  /\ CommonInit("LegacySignup", "/signup") /\ mounted = TRUE
  /\ session = "none"
  /\ TasksIdle /\ LoginIdle /\ EditorIdle
  /\ registered = {E1} /\ form = LegacyDefaults /\ isSubmitted = FALSE
  /\ loading = FALSE /\ pc = "idle" /\ submitData = NoSubmit
  /\ emailError = FALSE /\ emailFieldError = FALSE
  /\ showDuplicateEmail = FALSE /\ showConfirmation = FALSE
  /\ error = "none" /\ debouncedEmail = <<>> /\ lookups = {}

NextLegacySignup == SetLegacyField \/ LegacySubmit \/ LegacySignUpSettles

\* --------------------------------------------------------- markdown editor
Texts == {"initialMarkdown", "edited"}

\* onChange={(e) => setMarkdown(e.target.value)}
setMarkdown ==
  /\ view = "MarkdownEditor" /\ mounted
  /\ \E t \in Texts : t # markdown /\ markdown' = t
  /\ UNCHANGED <<commonVars, tasksVars, loginVars, signupVars, clipboard,
                 copying>>

\* handleCopy up to its await: navigator.clipboard.writeText(markdown)
handleCopy ==
  /\ view = "MarkdownEditor" /\ mounted
  /\ markdown \notin copying
  /\ copying' = copying \cup {markdown}
  /\ UNCHANGED <<commonVars, tasksVars, loginVars, signupVars, markdown,
                 clipboard>>

\* handleCopy after its await: toast.success(...), or toast.error(...) in
\* the catch
handleCopySettled(t, ok) ==
  IF ok
  THEN clipboard' = t /\ toast' = "Copied to clipboard!"
  ELSE toast' = "Failed to copy to clipboard" /\ UNCHANGED clipboard

CopySettles ==
  /\ view = "MarkdownEditor" /\ mounted
  /\ \E t \in copying :
        /\ copying' = copying \ {t}
        /\ \E ok \in BOOLEAN : handleCopySettled(t, ok)
  /\ UNCHANGED <<view, mounted, route, session, uncaught, unreported,
                 tasksVars, loginVars, signupVars, markdown>>

InitEditor ==
  /\ CommonInit("MarkdownEditor", "/") /\ mounted = TRUE
  /\ session = "none"
  /\ TasksIdle /\ LoginIdle /\ SignupIdle /\ EditorIdle

NextEditor == setMarkdown \/ handleCopy \/ CopySettles

\* ------------------------------------------------------------- the program
Init == InitTasks \/ InitLogin \/ InitSignup \/ InitLegacySignup \/ InitEditor
Next == NextTasks \/ NextLogin \/ NextSignup \/ NextLegacySignup \/ NextEditor
Spec == Init /\ [][Next]_vars

\* The Tasks view alone, with every fetch settling in the end (the request
\* either answers or times out).
FairTasks ==
  InitTasks /\ [][NextTasks]_vars /\ WF_vars(FetchSuccess \/ FetchError)

\* ============================================================ properties
\* --- helpers of the statements (independent of the model's operators)
CaseFold(s) == [i \in 1..Len(s) |-> IF s[i] \in {"a", "A"} THEN "a" ELSE "b"]

Occurs(needle, hay) ==
  \E k \in 0..(Len(hay) - Len(needle)) :
     \A m \in 1..Len(needle) : hay[k + m] = needle[m]

Wanted(t, s, p, st) ==
  /\ \/ Occurs(CaseFold(s), CaseFold(t.title))
     \/ Occurs(CaseFold(s), CaseFold(t.created_by))
     \/ Occurs(CaseFold(s), CaseFold(t.assigned_to))
  /\ (p = "all" \/ t.priority = p)
  /\ (st = "all" \/ t.status = st)

IsSubsequence(r, T) ==
  \E f \in [1..Len(r) -> 1..Len(T)] :
     /\ \A i, j \in 1..Len(r) : i < j => f[i] < f[j]
     /\ \A i \in 1..Len(r) : T[f[i]] = r[i]

Shown == view = "Tasks" /\ mounted /\ ~crashed

\* C1: the filtered list contains exactly the tasks of the collection whose
\* title, creator or assignee contains the search string (ignoring case) and
\* whose priority and status equal the selectors unless the selector is "all";
\* with empty search and both selectors "all" it is the whole collection.
C1_FilterExact ==
  Shown =>
    /\ \A k \in 1..Len(tasks) :
          Wanted(tasks[k], searchTerm, priorityFilter, statusFilter)
            <=> (\E i \in 1..Len(filteredTasks) : filteredTasks[i] = tasks[k])
    /\ \A i \in 1..Len(filteredTasks) :
          \E k \in 1..Len(tasks) : tasks[k] = filteredTasks[i]
    /\ (searchTerm = <<>> /\ priorityFilter = "all" /\ statusFilter = "all")
          => filteredTasks = tasks

\* a mixed-case search that keeps one task of three, by title only
C1_Witness ==
  /\ Shown /\ searchTerm = <<"a", "B">> /\ Len(tasks) = 3
  /\ priorityFilter = "high" /\ statusFilter = "pending"
  /\ Len(filteredTasks) = 1 /\ filteredTasks[1].id = 1

\* C2: the filtered list is a subsequence of the collection: every element
\* comes from the collection, none is duplicated, and the relative order of
\* the collection is kept.
C2_FilterSubsequence == Shown => IsSubsequence(filteredTasks, tasks)

\* two of three tasks are kept, the dropped one lying between them
C2_Witness ==
  /\ Shown /\ Len(tasks) = 3 /\ Len(filteredTasks) = 2
  /\ filteredTasks[1] = tasks[1] /\ filteredTasks[2] = tasks[3]

\* C3: filtering the filtered list again with the same criteria returns it
\* unchanged.
C3_FilterIdempotent ==
  Shown =>
    /\ ~filterThrows(filteredTasks, searchTerm)
    /\ computeFilteredTasks(filteredTasks, searchTerm, priorityFilter, statusFilter)
         = filteredTasks

\* a filter that really narrowed the collection, with all three criteria set
C3_Witness ==
  /\ Shown /\ searchTerm # <<>> /\ priorityFilter # "all" /\ statusFilter # "all"
  /\ Len(filteredTasks) >= 1 /\ Len(filteredTasks) < Len(tasks)

\* C4: the filter never throws, whatever the rows: a row whose title, creator
\* or assignee is absent is only left unmatched by a search on that field.
C4_FilterNeverThrows == ~crashed

SignupViews == {"SignupForm", "LegacySignup"}

\* the duplicate-email state of the form
DuplicateEmailState == showDuplicateEmail /\ emailError

\* C5: a signup submission with an email that is already registered ends in
\* the duplicate-email state and creates no account.
C5_RegisteredEmailEndsDuplicate ==
  [][ (view \in SignupViews /\ pc # "idle" /\ pc' = "idle"
         /\ submitData.email = E1)
        => (DuplicateEmailState' /\ registered' = registered) ]_vars

\* C6: a Tasks view opened by a session that is not verified is at the
\* verification screen and has neither started nor completed a task fetch.
C6_UnverifiedNeverFetches ==
  (view = "Tasks" /\ mounted /\ session # "verified")
    => (route = "/verify" /\ fetchStatus = "idle" /\ queryData = NoData)

\* C7: every redirect of the Login view goes to the main view for a
\* confirmed session and to the verification screen for an unconfirmed one,
\* for a sign-in event as for a session found on mount.
C7_LoginRedirectGated ==
  [][ (view = "Login" /\ route' # route /\ route' \in {"/", "/verify"})
        => route' = (IF session' = "verified" THEN "/" ELSE "/verify") ]_vars

\* the rules of the two forms, as stated for the fields
WellFormedEmail(e) == Len(e) = 3 /\ e[2] = "@"
RulesHold ==
  IF view = "LegacySignup"
  THEN /\ form.username >= 3 /\ form.password >= 8
       /\ form.contact_number >= 10
       /\ form.location >= 3 /\ form.full_name >= 3
       /\ WellFormedEmail(form.email) /\ form.email[3] = "outlook.com"
  ELSE WellFormedEmail(form.email) /\ form.others = "valid"

\* C8: while a field violates its rule no submit reaches the backend (the
\* handler does not start, so neither the lookup nor the sign-up is sent);
\* once every field is valid the submit starts the handler again.
C8_InvalidInputBlocksSubmit ==
  /\ [][ (view \in SignupViews /\ pc = "idle" /\ pc' # "idle") => RulesHold ]_vars
  /\ [](view = "LegacySignup" /\ mounted /\ ~loading /\ RulesHold
          => ENABLED (LegacySubmit /\ pc' = "signup"))
  /\ [](formUsable("SignupForm") /\ ~emailError /\ pc = "idle" /\ RulesHold
          => ENABLED (Submit /\ pc' = "lookup"))

\* a submit was attempted with a contact number one character short, every
\* other field valid: nothing was sent
C8_Witness ==
  /\ view = "LegacySignup" /\ isSubmitted /\ pc = "idle" /\ ~loading
  /\ form.contact_number = 9 /\ signupSchema(form) = {"contact_number"}
  /\ toast = NoToast /\ registered = {E1}

\* C9: no asynchronous failure is left uncaught, and none is swallowed
\* without a notification to the user.
C9_FailuresCaughtAndReported == uncaught = {} /\ unreported = {}

\* C10: a delivered tasks-changed notification marks the cached collection
\* stale and starts a re-fetch; the local collection only changes when a
\* fetch succeeds, and then becomes exactly the fetched collection; a stale
\* collection is in the end re-fetched or its fetch has failed.
C10_InvalidateThenReplace ==
  /\ [][ /\ (notices' < notices) => (isInvalidated' /\ fetchStatus' = "fetching")
         /\ (queryData' # queryData)
              => /\ fetchStatus = "fetching" /\ fetchStatus' = "idle"
                 /\ queryData' = Data(backendTasks) /\ ~isInvalidated'
                 /\ filteredTasks' = backendTasks ]_vars
  /\ [](isInvalidated => (fetchStatus = "fetching" \/ queryStatus = "error"))
  /\ (isInvalidated ~> (~isInvalidated \/ queryStatus = "error"))

\* a notification has marked a loaded, outdated collection stale and the
\* re-fetch is in flight
C10_Witness ==
  /\ view = "Tasks" /\ isInvalidated /\ fetchStatus = "fetching"
  /\ queryStatus = "success" /\ tasks # backendTasks /\ tasks # <<>>

\* C11: every subscription the Login effect registers is unsubscribed exactly
\* once, by the teardown of the view or by the next run of the effect; once
\* the view is torn down no auth event makes it navigate or show a toast,
\* while a getSession() still in flight can settle.
C11_ListenerReleasedOnce ==
  /\ [](view = "Login" =>
          /\ \A k \in 1..MaxEffectRuns :
                /\ unsubCalls[k] <= 1
                /\ (k \in listeners) <=> (k <= effectRuns /\ unsubCalls[k] = 0)
          /\ listeners = (IF mounted THEN {effectRuns} ELSE {})
          /\ (pendingChecks > 0 => ENABLED CheckUserSettles))
  /\ [][ (view = "Login" /\ ~mounted /\ ~mounted'
            /\ pendingChecks' = pendingChecks /\ route' # "/login")
           => (route' = route /\ toast' = toast) ]_vars

\* the view was torn down after a re-run of its effect: both subscriptions
\* were unsubscribed once and both session lookups are still in flight
C11_Witness ==
  /\ view = "Login" /\ ~mounted /\ route = "/signup" /\ listeners = {}
  /\ effectRuns >= 2 /\ unsubCalls[1] = 1 /\ unsubCalls[2] = 1
  /\ pendingChecks >= 2

\* the form has nothing in flight that could still change emailError: the
\* debounce has published the email of the field, every lookup has settled
\* and no submission is running
SignupQuiescent ==
  /\ view = "SignupForm" /\ mounted /\ pc = "idle"
  /\ debouncedEmail = form.email /\ lookups = {}

\* the form is at rest on a well-formed email that is not registered
AtRestOnUnregistered ==
  SignupQuiescent /\ isEmail(form.email) /\ form.email \notin registered

\* C12: the duplicate-email state is left by changing the email: when a form
\* whose emailError is set (submit button disabled) comes to rest on a
\* well-formed email that is not registered, the error has been cleared.
C12_UnregisteredEmailUnblocks ==
  [][ (emailError /\ ~AtRestOnUnregistered /\ AtRestOnUnregistered')
        => ~emailError' ]_vars

C14_LateResponseHarmless ==
  [][ (/\ view = "SignupForm" /\ mounted /\ debouncedEmail = form.email
       /\ isEmail(form.email)
       /\ lookups # {} /\ form.email \notin lookups /\ lookups' = {}
       /\ registered' = registered)
        => /\ (~emailError /\ form.email \notin registered) => ~emailError'
           /\ (emailError /\ form.email \in registered) => emailError' ]_vars

====
